---------------------------- MODULE Spec2Model ----------------------------
(***************************************************************************)
(* Streebog (GOST R 34.11-2012) streaming hasher of the streebog_hash      *)
(* crate: the byte-block transforms and compression function of            *)
(* src/src/transformations.rs and the hasher objects of src/src/lib.rs.    *)
(*                                                                         *)
(* A [u8; 64] is a sequence of 64 numbers in 0..255; Rust index i is       *)
(* sequence index i + 1.  Index 0 is the least significant byte.           *)
(***************************************************************************)
EXTENDS Integers, Sequences, FiniteSets, TLC

(***************************************************************************)
(* Arr(f) is the array with the elements of f, every element computed.     *)
(***************************************************************************)
Arr(f) == f \o << >>

BLOCK == 64

Zero512 == Arr([i \in 1..BLOCK |-> 0])

(***************************************************************************)
(* a ^ b on u8, tabulated once from the 4-bit halves of the operands.       *)
(***************************************************************************)
RECURSIVE BitXor(_, _, _)
BitXor(a, b, n) ==
  IF n = 0 THEN 0
  ELSE ((a + b) % 2) + 2 * BitXor(a \div 2, b \div 2, n - 1)

XorNib == Arr([a \in 1..16 |-> Arr([b \in 1..16 |-> BitXor(a - 1, b - 1, 4)])])

XorTab ==
  Arr([a \in 1..256 |->
    Arr([b \in 1..256 |->
      16 * XorNib[((a - 1) \div 16) + 1][((b - 1) \div 16) + 1]
        + XorNib[((a - 1) % 16) + 1][((b - 1) % 16) + 1]])])

Xor8(a, b) == XorTab[a + 1][b + 1]

(***************************************************************************)
(* The lookup tables of const_data.rs: the substitution pi, the byte       *)
(* permutation tau, the 64 rows of the matrix A (each a u64, written as    *)
(* its 8 bytes, least significant first) and the 12 round constants C      *)
(* (each stored most significant byte first, as key_schedule expects).     *)
(***************************************************************************)
pi ==
  <<
    252, 238, 221, 17, 207, 110, 49, 22, 251, 196, 250, 218, 35, 197, 4, 77,
    233, 119, 240, 219, 147, 46, 153, 186, 23, 54, 241, 187, 20, 205, 95, 193,
    249, 24, 101, 90, 226, 92, 239, 33, 129, 28, 60, 66, 139, 1, 142, 79,
    5, 132, 2, 174, 227, 106, 143, 160, 6, 11, 237, 152, 127, 212, 211, 31,
    235, 52, 44, 81, 234, 200, 72, 171, 242, 42, 104, 162, 253, 58, 206, 204,
    181, 112, 14, 86, 8, 12, 118, 18, 191, 114, 19, 71, 156, 183, 93, 135,
    21, 161, 150, 41, 16, 123, 154, 199, 243, 145, 120, 111, 157, 158, 178, 177,
    50, 117, 25, 61, 255, 53, 138, 126, 109, 84, 198, 128, 195, 189, 13, 87,
    223, 245, 36, 169, 62, 168, 67, 201, 215, 121, 214, 246, 124, 34, 185, 3,
    224, 15, 236, 222, 122, 148, 176, 188, 220, 232, 40, 80, 78, 51, 10, 74,
    167, 151, 96, 115, 30, 0, 98, 68, 26, 184, 56, 130, 100, 159, 38, 65,
    173, 69, 70, 146, 39, 94, 85, 47, 140, 163, 165, 125, 105, 213, 149, 59,
    7, 88, 179, 64, 134, 172, 29, 247, 48, 55, 107, 228, 136, 217, 231, 137,
    225, 27, 131, 73, 76, 63, 248, 254, 141, 83, 170, 144, 202, 216, 133, 97,
    32, 113, 103, 164, 45, 43, 9, 91, 203, 155, 37, 208, 190, 229, 108, 82,
    89, 166, 116, 210, 230, 244, 180, 192, 209, 102, 175, 194, 57, 75, 99, 182
  >>

tau ==
  <<
    0, 8, 16, 24, 32, 40, 48, 56, 1, 9, 17, 25, 33, 41, 49, 57,
    2, 10, 18, 26, 34, 42, 50, 58, 3, 11, 19, 27, 35, 43, 51, 59,
    4, 12, 20, 28, 36, 44, 52, 60, 5, 13, 21, 29, 37, 45, 53, 61,
    6, 14, 22, 30, 38, 46, 54, 62, 7, 15, 23, 31, 39, 47, 55, 63
  >>

A ==
  <<
    << 112, 180, 160, 43, 167, 250, 32, 142 >>,
    << 56, 90, 80, 155, 221, 125, 16, 71 >>,
    << 28, 45, 40, 195, 224, 176, 8, 173 >>,
    << 14, 152, 20, 239, 112, 88, 4, 216 >>,
    << 7, 76, 10, 249, 56, 44, 2, 108 >>,
    << 141, 38, 5, 242, 28, 22, 1, 54 >>,
    << 200, 19, 140, 121, 14, 11, 142, 27 >>,
    << 100, 135, 70, 178, 7, 139, 71, 131 >>,
    << 64, 143, 142, 129, 128, 211, 17, 160 >>,
    << 32, 201, 71, 206, 64, 231, 134, 80 >>,
    << 16, 234, 173, 103, 32, 253, 67, 40 >>,
    << 8, 117, 216, 189, 16, 240, 175, 20 >>,
    << 4, 180, 108, 208, 8, 120, 217, 10 >>,
    << 2, 90, 54, 104, 4, 60, 226, 5 >>,
    << 1, 45, 27, 52, 2, 30, 113, 140 >>,
    << 142, 152, 131, 26, 1, 15, 182, 70 >>,
    << 111, 231, 122, 56, 42, 181, 218, 144 >>,
    << 185, 253, 61, 28, 21, 212, 109, 72 >>,
    << 210, 240, 144, 14, 132, 106, 184, 36 >>,
    << 105, 120, 72, 7, 66, 53, 92, 18 >>,
    << 186, 60, 36, 141, 33, 148, 46, 9 >>,
    << 93, 30, 18, 200, 158, 74, 23, 138 >>,
    << 160, 15, 9, 100, 79, 37, 133, 69 >>,
    << 80, 137, 138, 50, 169, 156, 204, 172 >>,
    << 81, 20, 102, 95, 93, 240, 77, 157 >>,
    << 166, 10, 51, 161, 160, 120, 168, 192 >>,
    << 83, 5, 151, 222, 80, 60, 84, 96 >>,
    << 167, 140, 197, 111, 40, 30, 42, 48 >>,
    << 221, 70, 236, 185, 20, 15, 21, 24 >>,
    << 224, 35, 118, 210, 10, 137, 132, 12 >>,
    << 112, 159, 59, 105, 5, 202, 66, 6 >>,
    << 56, 193, 147, 186, 140, 101, 33, 3 >>,
    << 168, 170, 232, 156, 240, 93, 39, 134 >>,
    << 84, 85, 116, 78, 120, 160, 157, 67 >>,
    << 42, 164, 58, 39, 60, 80, 192, 175 >>,
    << 21, 82, 29, 157, 30, 40, 96, 217 >>,
    << 132, 41, 128, 192, 15, 20, 48, 226 >>,
    << 66, 154, 64, 96, 137, 10, 24, 113 >>,
    << 33, 77, 32, 48, 202, 5, 12, 182 >>,
    << 158, 168, 16, 24, 101, 140, 6, 91 >>,
    << 185, 5, 56, 122, 136, 52, 108, 69 >>,
    << 210, 140, 28, 61, 68, 26, 54, 172 >>,
    << 105, 70, 14, 144, 34, 13, 27, 86 >>,
    << 186, 35, 7, 72, 17, 136, 131, 43 >>,
    << 93, 159, 141, 36, 134, 68, 207, 155 >>,
    << 160, 193, 200, 18, 67, 34, 233, 195 >>,
    << 80, 238, 100, 9, 175, 17, 250, 239 >>,
    << 40, 119, 50, 138, 217, 134, 125, 249 >>,
    << 156, 50, 11, 168, 84, 32, 250, 228 >>,
    << 78, 25, 139, 84, 42, 16, 125, 114 >>,
    << 39, 130, 203, 42, 21, 8, 176, 57 >>,
    << 157, 65, 235, 21, 132, 4, 88, 146 >>,
    << 192, 174, 251, 132, 66, 2, 44, 73 >>,
    << 96, 87, 243, 66, 33, 1, 22, 170 >>,
    << 48, 165, 247, 33, 158, 142, 11, 85 >>,
    << 24, 220, 245, 158, 79, 71, 139, 164 >>,
    << 142, 89, 64, 36, 110, 165, 166, 112 >>,
    << 71, 162, 32, 18, 55, 220, 83, 56 >>,
    << 173, 81, 16, 9, 149, 110, 167, 28 >>,
    << 216, 166, 8, 138, 196, 55, 221, 14 >>,
    << 108, 83, 4, 69, 98, 149, 224, 7 >>,
    << 54, 167, 2, 172, 49, 196, 112, 141 >>,
    << 27, 221, 1, 86, 150, 98, 56, 200 >>,
    << 131, 224, 142, 43, 75, 49, 28, 100 >>
  >>

C ==
  <<
    <<
      177, 8, 91, 218, 30, 202, 218, 233, 235, 203, 47, 129, 192, 101, 124, 31,
      47, 106, 118, 67, 46, 69, 208, 22, 113, 78, 184, 141, 117, 133, 196, 252,
      75, 124, 224, 145, 146, 103, 105, 1, 162, 66, 42, 8, 164, 96, 211, 21,
      5, 118, 116, 54, 204, 116, 77, 35, 221, 128, 101, 89, 242, 166, 69, 7
    >>,
    <<
      111, 163, 181, 138, 169, 157, 47, 26, 79, 227, 157, 70, 15, 112, 181, 215,
      243, 254, 234, 114, 10, 35, 43, 152, 97, 213, 94, 15, 22, 181, 1, 49,
      154, 181, 23, 107, 18, 214, 153, 88, 92, 181, 97, 194, 219, 10, 167, 202,
      85, 221, 162, 27, 215, 203, 205, 86, 230, 121, 4, 112, 33, 177, 155, 183
    >>,
    <<
      245, 116, 220, 172, 43, 206, 47, 199, 10, 57, 252, 40, 106, 61, 132, 53,
      6, 241, 94, 95, 82, 156, 31, 139, 242, 234, 117, 20, 177, 41, 123, 123,
      211, 226, 15, 228, 144, 53, 158, 177, 193, 201, 58, 55, 96, 98, 219, 9,
      194, 182, 244, 67, 134, 122, 219, 49, 153, 30, 150, 245, 10, 186, 10, 178
    >>,
    <<
      239, 31, 223, 179, 232, 21, 102, 210, 249, 72, 225, 160, 93, 113, 228, 221,
      72, 142, 133, 126, 51, 92, 60, 125, 157, 114, 28, 173, 104, 94, 53, 63,
      169, 215, 44, 130, 237, 3, 214, 117, 216, 183, 19, 51, 147, 82, 3, 190,
      52, 83, 234, 161, 147, 232, 55, 241, 34, 12, 190, 188, 132, 227, 209, 46
    >>,
    <<
      75, 234, 107, 172, 173, 71, 71, 153, 154, 63, 65, 12, 108, 169, 35, 99,
      127, 21, 28, 31, 22, 134, 16, 74, 53, 158, 53, 215, 128, 15, 255, 189,
      191, 205, 23, 71, 37, 58, 245, 163, 223, 255, 0, 183, 35, 39, 26, 22,
      122, 86, 162, 126, 169, 234, 99, 245, 96, 23, 88, 253, 124, 108, 254, 87
    >>,
    <<
      174, 79, 174, 174, 29, 58, 211, 217, 111, 164, 195, 59, 122, 48, 57, 192,
      45, 102, 196, 249, 81, 66, 164, 108, 24, 127, 154, 180, 154, 240, 142, 198,
      207, 250, 166, 183, 28, 154, 183, 180, 10, 242, 31, 102, 194, 190, 198, 182,
      191, 113, 197, 114, 54, 144, 79, 53, 250, 104, 64, 122, 70, 100, 125, 110
    >>,
    <<
      244, 199, 14, 22, 238, 170, 197, 236, 81, 172, 134, 254, 191, 36, 9, 84,
      57, 158, 198, 199, 230, 191, 135, 201, 211, 71, 62, 51, 25, 122, 147, 201,
      9, 146, 171, 197, 45, 130, 44, 55, 6, 71, 105, 131, 40, 74, 5, 4,
      53, 23, 69, 76, 162, 60, 74, 243, 136, 134, 86, 77, 58, 20, 212, 147
    >>,
    <<
      155, 31, 91, 66, 77, 147, 201, 167, 3, 231, 170, 2, 12, 110, 65, 65,
      78, 183, 248, 113, 156, 54, 222, 30, 137, 180, 68, 59, 77, 219, 196, 154,
      244, 137, 43, 203, 146, 155, 6, 144, 105, 209, 141, 43, 209, 165, 196, 47,
      54, 172, 194, 53, 89, 81, 168, 217, 164, 127, 13, 212, 191, 2, 231, 30
    >>,
    <<
      55, 143, 90, 84, 22, 49, 34, 155, 148, 76, 154, 216, 236, 22, 95, 222,
      58, 125, 58, 27, 37, 137, 66, 36, 60, 217, 85, 183, 224, 13, 9, 132,
      128, 10, 68, 11, 219, 178, 206, 177, 123, 43, 138, 154, 166, 7, 156, 84,
      14, 56, 220, 146, 203, 31, 42, 96, 114, 97, 68, 81, 131, 35, 90, 219
    >>,
    <<
      171, 190, 222, 166, 128, 5, 111, 82, 56, 42, 229, 72, 178, 228, 243, 243,
      137, 65, 231, 28, 255, 138, 120, 219, 31, 255, 225, 138, 27, 51, 97, 3,
      159, 231, 103, 2, 175, 105, 51, 75, 122, 30, 108, 48, 59, 118, 82, 244,
      54, 152, 250, 209, 21, 59, 182, 195, 116, 180, 199, 251, 152, 69, 156, 237
    >>,
    <<
      123, 205, 158, 208, 239, 200, 137, 251, 48, 2, 198, 205, 99, 90, 254, 148,
      216, 250, 107, 187, 235, 171, 7, 97, 32, 1, 128, 33, 20, 132, 102, 121,
      138, 29, 113, 239, 234, 72, 185, 202, 239, 186, 205, 29, 125, 71, 110, 152,
      222, 162, 89, 74, 192, 111, 216, 93, 107, 202, 164, 205, 129, 243, 45, 27
    >>,
    <<
      55, 142, 231, 103, 241, 22, 49, 186, 210, 19, 128, 176, 4, 73, 177, 122,
      205, 164, 60, 50, 188, 223, 29, 119, 248, 32, 18, 212, 48, 33, 159, 155,
      93, 128, 239, 157, 24, 145, 204, 134, 231, 29, 164, 170, 136, 225, 40, 82,
      250, 244, 23, 213, 217, 178, 27, 153, 72, 188, 146, 74, 241, 27, 215, 32
    >>
  >>

(***************************************************************************)
(* precomp_data::A_precomp[j][b]: the XOR of the rows A[j*8+k] for every   *)
(* bit 7-k set in b (the bit-by-bit product of the L that the table        *)
(* replaces).                                                              *)
(***************************************************************************)
RECURSIVE RowSum(_, _, _, _)
RowSum(j, b, n, k) ==
  IF k = 8 THEN 0
  ELSE IF (b \div (2 ^ (7 - k))) % 2 = 1
       THEN Xor8(A[j * 8 + k + 1][n], RowSum(j, b, n, k + 1))
       ELSE RowSum(j, b, n, k + 1)

A_precomp ==
  Arr([j \in 1..8 |->
    Arr([b \in 1..256 |->
      Arr([n \in 1..8 |-> RowSum(j - 1, b - 1, n, 0)])])])

xor512(l, r) == Arr([i \in 1..BLOCK |-> Xor8(l[i], r[i])])

RECURSIVE AddCarry(_, _, _, _, _)
AddCarry(l, r, i, t, result) ==
  IF i <= BLOCK /\ t >= 0 /\ Len(result) = i - 1
  THEN AddCarry(l, r, i + 1, l[i] + r[i] + (t \div 256),
                Append(result, (l[i] + r[i] + (t \div 256)) % 256))
  ELSE result

\* add_modulo512 without the carry: each byte added on its own.
add_modulo512_nocarry(l, r) == Arr([i \in 1..BLOCK |-> (l[i] + r[i]) % 256])

add_modulo512(l, r) == AddCarry(l, r, 1, 0, << >>)

S(a) == Arr([i \in 1..BLOCK |-> pi[a[i] + 1]])

P(a) == Arr([i \in 1..BLOCK |-> a[tau[i] + 1]])

(***************************************************************************)
(* L: word i (bytes 8i..8i+7) becomes temp, the XOR over j of              *)
(* A_precomp[j][a[i_constants[i] - j]], stored least significant byte      *)
(* first.  L_temp(a, i, n, j) is byte n of temp, from round j on.  Each    *)
(* word of a is read before it is overwritten.                             *)
(***************************************************************************)
i_constants == << 7, 15, 23, 31, 39, 47, 55, 63 >>

RECURSIVE L_temp(_, _, _, _)
L_temp(a, i, n, j) ==
  IF j = 8 THEN 0
  ELSE Xor8(A_precomp[j + 1][a[i_constants[i + 1] - j + 1] + 1][n],
            L_temp(a, i, n, j + 1))

L(a) == Arr([x \in 1..BLOCK |-> L_temp(a, (x - 1) \div 8, ((x - 1) % 8) + 1, 0)])

_xor512(l, r) == Arr([i \in 1..BLOCK |-> Xor8(l[i], r[BLOCK + 1 - i])])

\* key_schedule with the round constant taken in the order of every other block.
key_schedule_unreversed(k, i) == L(P(S(xor512(k, C[i + 1]))))

key_schedule(k, i) == L(P(S(_xor512(k, C[i + 1]))))

RECURSIVE E_round(_, _, _)
E_xor(k, temp, i) == E_round(k, xor512(temp, k), i + 1)

E_round(k, temp, i) ==
  IF i < 12 /\ Len(k) = BLOCK /\ Len(temp) = BLOCK
  THEN E_xor(key_schedule(k, i), L(P(S(temp))), i)
  ELSE temp

E(k_init, m) == E_round(k_init, xor512(k_init, m), 0)

g_N(N, h, m) == xor512(xor512(E(L(P(S(xor512(h, N)))), m), h), m)

(***************************************************************************)
(* StreebogHasherCtx and the two hasher structs.  mode is the digest size  *)
(* in bits (StreebogHasherDigest).                                         *)
(***************************************************************************)
Fill(n, b) == Arr([i \in 1..n |-> b])

DigestLen(m) == IF m = 256 THEN 32 ELSE 64

new(m) ==
  [ctx |-> [hash |-> Fill(BLOCK, IF m = 256 THEN 1 ELSE 0),
            N |-> Zero512,
            sigma |-> Zero512,
            data |-> << >>],
   is_finished |-> FALSE,
   result |-> Fill(DigestLen(m), 0)]

\* pad_data marking the end of the data with 0x80, the bit-reversed marker.
pad_data_0x80(data) ==
  Arr([i \in 1..BLOCK |->
    IF i <= Len(data) THEN data[i] ELSE IF i = Len(data) + 1 THEN 128 ELSE 0])

pad_data(data) ==
  Arr([i \in 1..BLOCK |->
    IF i <= Len(data) THEN data[i] ELSE IF i = Len(data) + 1 THEN 1 ELSE 0])

\* bytes512 encoding 256, the count of half a block.
bytes512_half == Arr([i \in 1..BLOCK |-> IF i = 2 THEN 1 ELSE 0])

bytes512 == Arr([i \in 1..BLOCK |-> IF i = 2 THEN 2 ELSE 0])

\* The loop of streebog_update leaving a whole block pending (<= for <).
RECURSIVE streebog_update_loop_le(_)
streebog_update_loop_le(ctx) ==
  IF Len(ctx.data) <= BLOCK THEN ctx
  ELSE streebog_update_loop_le(
         [hash |-> g_N(ctx.N, ctx.hash, SubSeq(ctx.data, 1, BLOCK)),
          N |-> add_modulo512(ctx.N, bytes512),
          sigma |-> add_modulo512(ctx.sigma, SubSeq(ctx.data, 1, BLOCK)),
          data |-> SubSeq(ctx.data, BLOCK + 1, Len(ctx.data))])

\* The loop of streebog_update with N advanced before the block is compressed.
RECURSIVE streebog_update_loop_late(_)
streebog_update_loop_late(ctx) ==
  IF Len(ctx.data) < BLOCK THEN ctx
  ELSE streebog_update_loop_late(
         [hash |-> g_N(add_modulo512(ctx.N, bytes512), ctx.hash,
                       SubSeq(ctx.data, 1, BLOCK)),
          N |-> add_modulo512(ctx.N, bytes512),
          sigma |-> add_modulo512(ctx.sigma, SubSeq(ctx.data, 1, BLOCK)),
          data |-> SubSeq(ctx.data, BLOCK + 1, Len(ctx.data))])

RECURSIVE streebog_update_loop(_)
streebog_update_loop(ctx) ==
  IF Len(ctx.data) < BLOCK THEN ctx
  ELSE streebog_update_loop(
         [hash |-> g_N(ctx.N, ctx.hash, SubSeq(ctx.data, 1, BLOCK)),
          N |-> add_modulo512(ctx.N, bytes512),
          sigma |-> add_modulo512(ctx.sigma, SubSeq(ctx.data, 1, BLOCK)),
          data |-> SubSeq(ctx.data, BLOCK + 1, Len(ctx.data))])

\* streebog_update with the new chunk stored over the pending bytes, not after them.
streebog_update_overwrite(ctx, data) ==
  streebog_update_loop([ctx EXCEPT !.data = data])

streebog_update(ctx, data) ==
  streebog_update_loop([ctx EXCEPT !.data = @ \o data])

bytes_len(data_len) ==
  Arr([i \in 1..BLOCK |->
    IF i = 1 THEN data_len % 256
    ELSE IF i = 2 THEN (data_len \div 256) % 256 ELSE 0])

finish_pad(ctx) ==
  [ctx EXCEPT !.hash = g_N(ctx.N, ctx.hash, pad_data(ctx.data)),
              !.N = add_modulo512(ctx.N, bytes_len(Len(ctx.data) * 8)),
              !.sigma = add_modulo512(ctx.sigma, pad_data(ctx.data))]

finish_N(ctx) == [ctx EXCEPT !.hash = g_N(Zero512, ctx.hash, ctx.N)]

finish_sigma(ctx) == [ctx EXCEPT !.hash = g_N(Zero512, ctx.hash, ctx.sigma)]

\* streebog_finish folding sigma before N.
streebog_finish_ctx_swapped(ctx) == finish_N(finish_sigma(finish_pad(ctx)))

streebog_finish_ctx(ctx) == finish_sigma(finish_N(finish_pad(ctx)))

result_temp(ctx, m) ==
  IF m = 256 THEN SubSeq(ctx.hash, 33, 64) ELSE ctx.hash

\* finish storing the returned bytes in the order streebog_finish returns them.
rev_omitted(s) == s

rev(s) == Arr([i \in 1..Len(s) |-> s[Len(s) + 1 - i]])

\* update without the is_finished test.
update_unguarded(h, data_chunk) ==
  [h EXCEPT !.ctx = streebog_update(h.ctx, data_chunk)]

update(h, data_chunk) ==
  IF ~h.is_finished
  THEN [h EXCEPT !.ctx = streebog_update(h.ctx, data_chunk)]
  ELSE h

finish_done(h, ctx, m) ==
  [ctx |-> ctx, is_finished |-> TRUE, result |-> rev(result_temp(ctx, m))]

\* finish without the is_finished test.
finish_unguarded(h, m) == finish_done(h, streebog_finish_ctx(h.ctx), m)

finish(h, m) ==
  IF ~h.is_finished
  THEN finish_done(h, streebog_finish_ctx(h.ctx), m)
  ELSE h

\* get_result without the is_finished test.
get_result_unguarded(h) == h.result

get_result(h) == IF h.is_finished THEN h.result ELSE << >>

HexDigit == << "0", "1", "2", "3", "4", "5", "6", "7",
               "8", "9", "a", "b", "c", "d", "e", "f" >>

get_result_str(h) ==
  IF h.is_finished
  THEN << "0", "x" >> \o
       Arr([i \in 1..(2 * Len(h.result)) |->
         IF i % 2 = 1 THEN HexDigit[(h.result[(i + 1) \div 2] \div 16) + 1]
         ELSE HexDigit[(h.result[i \div 2] % 16) + 1]])
  ELSE << >>

reset(h, m) ==
  [ctx |-> [hash |-> Fill(BLOCK, 0),
            N |-> Fill(BLOCK, 0),
            sigma |-> Fill(BLOCK, 0),
            data |-> << >>],
   is_finished |-> FALSE,
   result |-> Fill(DigestLen(m), 0)]

(***************************************************************************)
(* should_be of tests::test_streebog512_final_1, as written there (before  *)
(* the test reverses it).                                                  *)
(***************************************************************************)
should_be ==
  << 27, 84, 208, 26, 74, 245, 185, 213, 204, 61, 134, 214,
     141, 40, 84, 98, 177, 154, 188, 36, 117, 34, 47, 53,
     192, 133, 18, 43, 228, 186, 31, 250, 0, 173, 48, 248,
     118, 123, 58, 130, 56, 76, 101, 116, 240, 36, 195, 17,
     226, 164, 129, 51, 43, 8, 239, 127, 65, 121, 120, 145,
     193, 100, 111, 72 >>

(***************************************************************************)
(* The inputs of update: the empty chunk, one byte, the 63-byte message    *)
(* data_1 of the tests, one whole block and two whole blocks.              *)
(***************************************************************************)
data_1 == Arr([i \in 1..63 |-> 48 + ((i - 1) % 10)])

Chunks == { << >>, << 255 >>, data_1, Fill(BLOCK, 255), Fill(2 * BLOCK, 255) }

MaxCalls == 2

(***************************************************************************)
(* State: the hasher object h of variant mode, and the history of the      *)
(* calls made on it: op, the last call; was_finished, whether the hasher   *)
(* was finished when that call was made; fed, the bytes the hasher has     *)
(* consumed since it was constructed or reset; calls, the number of        *)
(* update calls that consumed them; origin, which of new and reset         *)
(* started the present round of hashing.  call is the application of one   *)
(* of the free functions to its arguments, outside any hasher (as the unit *)
(* tests make them): the function, its arguments, whether it has returned  *)
(* and what it returned; NoCall when the history is that of a hasher.      *)
(***************************************************************************)
VARIABLES mode, h, op, was_finished, fed, calls, origin, call

vars == << mode, h, op, was_finished, fed, calls, origin, call >>

NoCall == [fn |-> "none", args |-> << >>, done |-> FALSE, ret |-> << >>]

Init ==
  /\ mode \in {256, 512}
  /\ h = new(mode)
  /\ op = "new"
  /\ was_finished = FALSE
  /\ fed = << >>
  /\ calls = 0
  /\ origin = "new"
  /\ call = NoCall

Update(data_chunk) ==
  /\ h.is_finished \/ calls < MaxCalls
  /\ h' = update(h, data_chunk)
  /\ op' = "update"
  /\ was_finished' = h.is_finished
  /\ fed' = IF h.is_finished THEN fed ELSE fed \o data_chunk
  /\ calls' = IF h.is_finished THEN calls ELSE calls + 1
  /\ UNCHANGED << mode, origin, call >>

Finish ==
  /\ h' = finish(h, mode)
  /\ op' = "finish"
  /\ was_finished' = h.is_finished
  /\ UNCHANGED << mode, fed, calls, origin, call >>

Reset ==
  /\ h' = reset(h, mode)
  /\ op' = "reset"
  /\ was_finished' = h.is_finished
  /\ fed' = << >>
  /\ calls' = 0
  /\ origin' = "reset"
  /\ UNCHANGED << mode, call >>

Next ==
  \/ \E data_chunk \in Chunks : Update(data_chunk)
  \/ Finish
  \/ Reset

Spec == Init /\ [][Next]_vars

(***************************************************************************)
(* pad_data applied to a vector of 0 to 63 bytes, as tests::test_pad_data  *)
(* applies it to data_1: every length, with bytes that are all 0x00, all   *)
(* 0x01, all 0xff, or a prefix of data_1.                                  *)
(***************************************************************************)
NoHasher ==
  /\ mode = 512
  /\ h = new(512)
  /\ op = "new"
  /\ was_finished = FALSE
  /\ fed = << >>
  /\ calls = 0
  /\ origin = "new"

hasher_vars == << mode, h, op, was_finished, fed, calls, origin >>

PadInputs ==
  { Fill(n, b) : n \in 0..(BLOCK - 1), b \in {0, 1, 255} }
    \cup { SubSeq(data_1, 1, n) : n \in 0..(BLOCK - 1) }

InitPad ==
  /\ NoHasher
  /\ call \in { [fn |-> "pad_data", args |-> << data >>, done |-> FALSE, ret |-> << >>] :
                 data \in PadInputs }

PadData ==
  /\ call.fn = "pad_data" /\ ~call.done
  /\ call' = [call EXCEPT !.ret = pad_data(call.args[1]), !.done = TRUE]
  /\ UNCHANGED hasher_vars

NextPad == PadData

SpecPad == InitPad /\ [][NextPad]_vars

(***************************************************************************)
(* add_modulo512 applied to two 64-byte values, drawn from values that     *)
(* make the carry stop, run through every byte, enter byte 63 and leave    *)
(* byte 63.                                                                *)
(***************************************************************************)
AddOperands ==
  { Zero512,
    Fill(BLOCK, 255),
    Fill(BLOCK, 128),
    Fill(BLOCK, 1),
    bytes512,
    pad_data(data_1),
    C[1],
    Arr([i \in 1..BLOCK |-> IF i = 1 THEN 1 ELSE 0]),
    Arr([i \in 1..BLOCK |-> IF i = BLOCK THEN 255 ELSE 0]),
    Arr([i \in 1..BLOCK |-> IF i = BLOCK THEN 128 ELSE 0]),
    Arr([i \in 1..BLOCK |-> IF i = BLOCK THEN 0 ELSE 255]),
    Arr([i \in 1..BLOCK |-> IF i % 2 = 1 THEN 255 ELSE 0]) }

InitAdd ==
  /\ NoHasher
  /\ call \in { [fn |-> "add_modulo512", args |-> << l, r >>, done |-> FALSE, ret |-> << >>] :
                 l \in AddOperands, r \in AddOperands }

AddModulo512 ==
  /\ call.fn = "add_modulo512" /\ ~call.done
  /\ call' = [call EXCEPT !.ret = add_modulo512(call.args[1], call.args[2]), !.done = TRUE]
  /\ UNCHANGED hasher_vars

NextAdd == AddModulo512

SpecAdd == InitAdd /\ [][NextAdd]_vars

(***************************************************************************)
(* C1: after reset(), whatever came before it, the hasher is in the state  *)
(* new() returns for its variant: not finished, empty pending buffer, N    *)
(* and sigma zero, and the variant's initial chaining value.               *)
(***************************************************************************)
C1_ResetIsNew == (op = "reset") => (h = new(mode))

(***************************************************************************)
(* C2: a fresh hasher fed its input in any number of update calls is in    *)
(* the state of a fresh hasher fed the concatenation in one call: the same *)
(* hash, N, sigma and pending bytes, and after finish() the same result.   *)
(***************************************************************************)
OneShot(m, b) ==
  IF h.is_finished THEN finish(update(new(m), b), m) ELSE update(new(m), b)

C2_ChunkingInvariance == (origin = "new") => (h = OneShot(mode, fed))

C2_Witness ==
  /\ origin = "new"
  /\ h.is_finished
  /\ calls = 2
  /\ fed = data_1 \o data_1
  /\ get_result(h) = get_result(finish(update(new(mode), data_1 \o data_1), mode))

(***************************************************************************)
(* C3: update on a finished hasher changes nothing: the context, the       *)
(* finished flag and the stored result stay as they were, and so does      *)
(* get_result.                                                             *)
(***************************************************************************)
C3_UpdateAfterFinishIsNoOp ==
  [][(op' = "update" /\ h.is_finished) =>
       (h' = h /\ get_result(h') = get_result(h))]_vars

C3_Witness == op = "update" /\ was_finished /\ h.is_finished /\ Len(fed) > 0

(***************************************************************************)
(* C4: finish on a finished hasher changes nothing: finalization is not    *)
(* run again and the stored result is kept.                                *)
(***************************************************************************)
C4_FinishIsIdempotent ==
  [][(op' = "finish" /\ h.is_finished) => (h' = h)]_vars

C4_Witness == op = "finish" /\ was_finished /\ h.is_finished

(***************************************************************************)
(* C5: while the hasher is not finished, get_result() is the empty byte    *)
(* sequence and get_result_str() the empty string.                         *)
(***************************************************************************)
C5_EmptyBeforeFinish ==
  ~h.is_finished => (Len(get_result(h)) = 0 /\ Len(get_result_str(h)) = 0)

C5_Witness == ~h.is_finished /\ op = "reset" /\ was_finished

(***************************************************************************)
(* C6: after finish(), get_result() has 64 bytes (512-bit variant) or 32   *)
(* bytes (256-bit variant), and its byte i is byte 63 - i of the final     *)
(* chaining value.                                                         *)
(***************************************************************************)
C6_DigestBytes ==
  h.is_finished =>
    /\ Len(get_result(h)) = (IF mode = 512 THEN 64 ELSE 32)
    /\ \A i \in 0..(Len(get_result(h)) - 1) :
         get_result(h)[i + 1] = h.ctx.hash[(63 - i) + 1]

C6_Witness ==
  h.is_finished /\ op = "finish" /\ mode = 256 /\ fed = data_1

(***************************************************************************)
(* C7: whenever a public call has returned, fewer than 64 bytes are        *)
(* pending; so they are whenever finish() pads the buffer.                 *)
(***************************************************************************)
C7_PendingBelowBlock == Len(h.ctx.data) < 64

C7_Witness ==
  /\ op = "update" /\ ~was_finished /\ ~h.is_finished
  /\ calls = 1 /\ Len(fed) = 128 /\ Len(h.ctx.data) = 0

(***************************************************************************)
(* C8 as stated: a fresh 512-bit hasher given data_1 (M1) and finished     *)
(* returns from get_result() the bytes 1b 54 d0 1a ... 64 6f 48 in that    *)
(* order.                                                                  *)
(***************************************************************************)
C8_Driven == mode = 512 /\ origin = "new" /\ h.is_finished /\ fed = data_1

C8_DigestAsListed == C8_Driven => (get_result(h) = should_be)

(***************************************************************************)
(* C8 amended: get_result() returns those 64 bytes in the reverse order,   *)
(* 48 6f 64 ... 1a d0 54 1b: the listed string is the digest least         *)
(* significant byte first, and get_result() gives the most significant     *)
(* byte first.                                                             *)
(***************************************************************************)
C8_DigestReversed ==
  C8_Driven =>
    /\ Len(get_result(h)) = 64
    /\ \A i \in 1..64 : get_result(h)[i] = should_be[65 - i]
    /\ get_result(h)[1] = 72 /\ get_result(h)[64] = 27

C8_Witness == C8_Driven /\ calls = 1 /\ op = "finish"

(***************************************************************************)
(* C9: update on a not-finished hasher with pending bytes p consumes the   *)
(* first (|p| + |data|) \div 64 blocks of p ++ data in order; each block B *)
(* gives hash = g_N(N, hash, B) with N as it was before the block, then    *)
(* N = N + 512 and sigma = sigma + B; the other (|p| + |data|) % 64 bytes  *)
(* stay pending; with no whole block, hash, N and sigma do not change.     *)
(* N is read as the number its three low bytes encode (the others are 0    *)
(* within the bounds).                                                     *)
(***************************************************************************)
Int3(x) == x[1] + 256 * x[2] + 65536 * x[3]

Plus(x, n) ==
  Arr([i \in 1..64 |->
    IF i = 1 THEN (Int3(x) + n) % 256
    ELSE IF i = 2 THEN ((Int3(x) + n) \div 256) % 256
    ELSE IF i = 3 THEN ((Int3(x) + n) \div 65536) % 256
    ELSE x[i]])

C9_Block(c, B) ==
  [hash |-> g_N(c.N, c.hash, B),
   N |-> Plus(c.N, 512),
   sigma |-> add_modulo512(c.sigma, B),
   data |-> c.data]

RECURSIVE C9_After(_, _, _)
C9_After(c, all, k) ==
  IF k = 0 THEN c
  ELSE C9_Block(C9_After(c, all, k - 1), SubSeq(all, 64 * (k - 1) + 1, 64 * k))

C9_Expected(c, all) ==
  [C9_After(c, all, Len(all) \div 64) EXCEPT
     !.data = SubSeq(all, Len(all) - (Len(all) % 64) + 1, Len(all))]

C9_Unchanged(c, c2, all) ==
  (Len(all) < 64) => (c2.hash = c.hash /\ c2.N = c.N /\ c2.sigma = c.sigma)

C9_UpdateConsumesBlocks ==
  [][(op' = "update" /\ ~h.is_finished) =>
       /\ h'.ctx = C9_Expected(h.ctx, h.ctx.data \o SubSeq(fed', Len(fed) + 1, Len(fed')))
       /\ C9_Unchanged(h.ctx, h'.ctx, h.ctx.data \o SubSeq(fed', Len(fed) + 1, Len(fed')))
       /\ Int3(h'.ctx.N) = Int3(h.ctx.N) + 512 * ((Len(h.ctx.data) + Len(fed') - Len(fed)) \div 64)
       /\ Len(h'.ctx.data) = (Len(h.ctx.data) + Len(fed') - Len(fed)) % 64]_vars

C9_Witness ==
  /\ op = "update" /\ ~was_finished /\ ~h.is_finished
  /\ calls = 2 /\ Len(fed) = 129
  /\ Len(h.ctx.data) = 1 /\ Int3(h.ctx.N) = 1024

(***************************************************************************)
(* C10: the first finish() on (hash, N, sigma, pending p) computes         *)
(* h1 = g_N(N, hash, pad(p)), N2 = N + 8 * |p|, sigma2 = sigma + pad(p),   *)
(* h2 = g_N(0, h1, N2), h3 = g_N(0, h2, sigma2); the chaining value left   *)
(* is h3 and the digest is taken from it.  Also with no data fed at all.   *)
(***************************************************************************)
C10_pad(p) == p \o << 1 >> \o Fill(63 - Len(p), 0)

C10_h3(c) ==
  g_N(Zero512,
      g_N(Zero512,
          g_N(c.N, c.hash, C10_pad(c.data)),
          Plus(c.N, 8 * Len(c.data))),
      add_modulo512(c.sigma, C10_pad(c.data)))

C10_Left(c2, result, c, h3) ==
  /\ Len(h3) = 64
  /\ c2.hash = h3
  /\ c2.N = Plus(c.N, 8 * Len(c.data))
  /\ c2.sigma = add_modulo512(c.sigma, C10_pad(c.data))
  /\ \A i \in 1..Len(result) : result[i] = h3[65 - i]

C10_FinishSteps ==
  [][(op' = "finish" /\ ~h.is_finished) =>
       C10_Left(h'.ctx, get_result(h'), h.ctx, C10_h3(h.ctx))]_vars

C10_Witness ==
  /\ op = "finish" /\ ~was_finished /\ h.is_finished
  /\ origin = "new" /\ calls = 0 /\ Len(fed) = 0
  /\ h.ctx.N = Zero512

(***************************************************************************)
(* C11: for every vector p of 0 to 63 bytes pad_data(p) has 64 bytes: the  *)
(* bytes of p at indices 0..|p|-1, 0x01 at index |p|, 0x00 at indices      *)
(* |p|+1..63; for empty p it is 0x01 followed by 63 zero bytes.            *)
(***************************************************************************)
C11_Padding ==
  (call.fn = "pad_data" /\ call.done) =>
    /\ Len(call.args[1]) <= 63
    /\ Len(call.ret) = 64
    /\ \A i \in 0..63 :
         call.ret[i + 1] =
           IF i < Len(call.args[1]) THEN call.args[1][i + 1]
           ELSE IF i = Len(call.args[1]) THEN 1 ELSE 0
    /\ (call.args[1] = << >> => call.ret = << 1 >> \o Fill(63, 0))

C11_Witness ==
  /\ call.fn = "pad_data" /\ call.done
  /\ call.args[1] = data_1
  /\ SubSeq(call.ret, 1, 63) = data_1 /\ call.ret[64] = 1

(***************************************************************************)
(* C12: add_modulo512(l, r) is addition modulo 2^512 of the integers that  *)
(* l and r encode, byte 0 least significant: every byte of the result is   *)
(* in 0..255, the carry goes from byte 0 up to byte 63 and the carry out   *)
(* of byte 63 is dropped.  The integers exceed the range of the checker,   *)
(* so int(result) = int(l) + int(r) - c * 2^512 with c in {0, 1} is        *)
(* stated twice: digit by digit in radix 65536 (32 digits, c the carry out *)
(* of the last), and on the residues of the three integers modulo each of  *)
(* Moduli.                                                                 *)
(***************************************************************************)
Limb(x, k) == x[2 * k + 1] + 256 * x[2 * k + 2]

RECURSIVE LimbCarry(_, _, _)
LimbCarry(l, r, k) ==
  IF k = 0 THEN 0
  ELSE (Limb(l, k - 1) + Limb(r, k - 1) + LimbCarry(l, r, k - 1)) \div 65536

RECURSIVE IntMod(_, _, _)
IntMod(x, m, i) ==
  IF i > Len(x) THEN 0 ELSE (x[i] + 256 * IntMod(x, m, i + 1)) % m

RECURSIVE PowMod(_, _, _)
PowMod(b, e, m) == IF e = 0 THEN 1 % m ELSE (b * PowMod(b, e - 1, m)) % m

Moduli == { 251, 257, 8191, 65521 }

C12_Sum(l, r, sum, c) ==
  /\ Len(sum) = 64
  /\ \A i \in 1..64 : sum[i] \in 0..255
  /\ c \in {0, 1}
  /\ \A k \in 0..31 :
       Limb(sum, k) = (Limb(l, k) + Limb(r, k) + LimbCarry(l, r, k)) % 65536
  /\ \A m \in Moduli :
       (IntMod(sum, m, 1) + c * PowMod(256, 64, m)) % m
         = (IntMod(l, m, 1) + IntMod(r, m, 1)) % m

C12_AddIsModular ==
  (call.fn = "add_modulo512" /\ call.done) =>
    C12_Sum(call.args[1], call.args[2], call.ret,
            LimbCarry(call.args[1], call.args[2], 32))

C12_Witness ==
  /\ call.fn = "add_modulo512" /\ call.done
  /\ call.args[1] = Fill(64, 255)
  /\ call.args[2] = << 1 >> \o Fill(63, 0)
  /\ call.ret = Fill(64, 0)

(***************************************************************************)
(* C13: with T the number of bytes fed since new or reset, before finish   *)
(* N encodes 512 * (T div 64) and int(N) + 8 * |pending| = 8 * T; after    *)
(* the first finish N encodes 8 * T.  The length buffer finish adds holds  *)
(* 8 * |pending|, which is below 512: its second byte is 0 or 1, the       *)
(* bytes above it are 0, and nothing of the length is cut off.  Within the *)
(* bounds 8 * T is below 2^24, so N is read from its three low bytes and   *)
(* its other bytes are required to be 0.                                   *)
(***************************************************************************)
C13_Encodes(x, n) ==
  /\ Len(x) = 64
  /\ n < 16777216
  /\ Int3(x) = n
  /\ \A i \in 4..64 : x[i] = 0

C13_LengthBuffer(b, n) ==
  /\ n < 512
  /\ b[2] \in {0, 1}
  /\ C13_Encodes(b, n)

C13_BitCount ==
  /\ ~h.is_finished =>
       /\ C13_Encodes(h.ctx.N, 512 * (Len(fed) \div 64))
       /\ Int3(h.ctx.N) + 8 * Len(h.ctx.data) = 8 * Len(fed)
       /\ C13_LengthBuffer(bytes_len(Len(h.ctx.data) * 8), 8 * Len(h.ctx.data))
  /\ h.is_finished => C13_Encodes(h.ctx.N, 8 * Len(fed))
  /\ \A n \in 0..63 : C13_LengthBuffer(bytes_len(n * 8), 8 * n)

C13_Witness ==
  /\ op = "finish" /\ ~was_finished /\ h.is_finished
  /\ origin = "reset" /\ calls = 2
  /\ Len(fed) = 129 /\ Len(h.ctx.data) = 1
  /\ Int3(h.ctx.N) = 1032

=============================================================================
